---- MODULE Spec2Model ----
(***************************************************************************)
(* ghsync: the concurrent backup scheduler of src/src/backup.rs            *)
(* (run_backup, backup_repo, Progress), the execution collaborator run_cmd *)
(* of src/src/github.rs and the exit path of src/src/main.rs; repository   *)
(* discovery (discover_repos, glob_match of src/src/github.rs) and the     *)
(* command-line flow that joins the two (run of src/src/cli.rs).           *)
(*                                                                         *)
(* Spec and LiveSpec are run_backup on every sorted target list,           *)
(* DiscoverSpec is one call of discover_repos, GlobSpec one call of        *)
(* glob_match, CliSpec a whole run from the command line.                  *)
(*                                                                         *)
(* Strings and paths are sequences of one-character strings, so that       *)
(* split_once and Path::join are computed, not assumed.                    *)
(***************************************************************************)
EXTENDS Integers, Sequences, FiniteSets, TLC

(***************************************************************************)
(* Bounds of the model.                                                    *)
(***************************************************************************)
MaxTargets == 3
MaxJobs == 2

(***************************************************************************)
(* Strings.                                                                *)
(***************************************************************************)
Slash == "/"

\* the qualified identifiers the directory service can report: owner/name
NwoUniverse ==
    << <<"a", "/", "r">>, <<"a", "/", "s">>, <<"b", "/", "r">>, <<"b", "/", "s">> >>

\* the canonicalized destination root (backup.rs:85)
Dest == <<"/", "d">>

\* the lines of standard error of a failing external action; a line is a
\* sequence of pieces of text
StderrText == << <<"network timeout">> >>

RECURSIVE FindChar(_, _, _)
FindChar(s, c, i) ==
    IF i > Len(s) THEN 0
    ELSE IF s[i] = c THEN i
    ELSE FindChar(s, c, i + 1)

\* str::split_once(c): <<found, before, after>>
SplitOnce(s, c) ==
    LET k == FindChar(s, c, 1)
    IN IF k = 0 THEN <<FALSE, <<>>, <<>>>>
       ELSE <<TRUE, SubSeq(s, 1, k - 1), SubSeq(s, k + 1, Len(s))>>

\* Path::join on Unix: an absolute argument replaces the base, otherwise a
\* separator is added unless the base already ends with one
PathJoin(base, p) ==
    IF Len(p) > 0 /\ p[1] = Slash THEN p
    ELSE IF Len(base) > 0 /\ base[Len(base)] # Slash THEN base \o <<Slash>> \o p
    ELSE base \o p

RECURSIVE LastSlash(_, _)
LastSlash(s, i) ==
    IF i = 0 THEN 0
    ELSE IF s[i] = Slash THEN i
    ELSE LastSlash(s, i - 1)

\* Path::parent of a path that does not end with a separator
Parent(p) ==
    LET k == LastSlash(p, Len(p))
    IN IF k <= 1 THEN SubSeq(p, 1, k) ELSE SubSeq(p, 1, k - 1)

\* backup.rs:30-32: owner and name of the identifier, and the repository dir
OwnerName(nwo) ==
    LET sp == SplitOnce(nwo, Slash)
    IN IF sp[1] THEN <<sp[2], sp[3]>> ELSE <<<<>>, nwo>>

\* RepoDir with a fault: the owner component is left out of the path
RepoDirNoOwner(dest, nwo) == PathJoin(dest, OwnerName(nwo)[2])

RepoDir(dest, nwo) ==
    LET on == OwnerName(nwo)
    IN PathJoin(PathJoin(dest, on[1]), on[2])

(***************************************************************************)
(* Letter case and byte order of ASCII strings.                            *)
(***************************************************************************)
UpperLetters ==
    <<"A", "B", "C", "D", "E", "F", "G", "H", "I", "J", "K", "L", "M",
      "N", "O", "P", "Q", "R", "S", "T", "U", "V", "W", "X", "Y", "Z">>

LowerLetters ==
    <<"a", "b", "c", "d", "e", "f", "g", "h", "i", "j", "k", "l", "m",
      "n", "o", "p", "q", "r", "s", "t", "u", "v", "w", "x", "y", "z">>

\* the place of every upper-case and of every lower-case letter in the alphabet
UpperIndex == [c \in {UpperLetters[k] : k \in 1..Len(UpperLetters)} |->
                  FindChar(UpperLetters, c, 1)]

LowerIndex == [c \in {LowerLetters[k] : k \in 1..Len(LowerLetters)} |->
                  FindChar(LowerLetters, c, 1)]

LowerChar(c) == IF c \in DOMAIN UpperIndex THEN LowerLetters[UpperIndex[c]] ELSE c

\* ToLower with a fault: the string is compared as it is spelled
ToLowerIdentity(s) == s

\* str::to_lowercase on an ASCII string
ToLower(s) == [k \in 1..Len(s) |-> LowerChar(s[k])]

\* str::eq_ignore_ascii_case
EqIgnoreAsciiCase(a, b) ==
    /\ Len(a) = Len(b)
    /\ \A k \in 1..Len(a) : LowerChar(a[k]) = LowerChar(b[k])

\* the byte of an ASCII character: letters, and the punctuation the model uses
ByteOf(c) ==
    IF c \in DOMAIN UpperIndex THEN 64 + UpperIndex[c]
    ELSE IF c \in DOMAIN LowerIndex THEN 96 + LowerIndex[c]
    ELSE CASE c = "*" -> 42
           [] c = "-" -> 45
           [] c = "." -> 46
           [] c = "/" -> 47
           [] c = "?" -> 63
           [] c = "_" -> 95

RECURSIVE StrLess(_, _)
\* Ord for str: a < b in the lexicographic order of the bytes
StrLess(a, b) ==
    IF Len(b) = 0 THEN FALSE
    ELSE IF Len(a) = 0 THEN TRUE
    ELSE IF ByteOf(a[1]) # ByteOf(b[1]) THEN ByteOf(a[1]) < ByteOf(b[1])
    ELSE StrLess(Tail(a), Tail(b))

(***************************************************************************)
(* glob_match (github.rs:183-197).                                         *)
(***************************************************************************)
RECURSIVE GlobMatchBytesStarTakesOne(_, _)
\* GlobMatchBytes with a fault: a star has to consume at least one byte
GlobMatchBytesStarTakesOne(p, t) ==
    IF Len(p) = 0 THEN Len(t) = 0
    ELSE IF p[1] = "*"
         THEN Len(t) > 0 /\ (\/ GlobMatchBytesStarTakesOne(Tail(p), Tail(t))
                             \/ GlobMatchBytesStarTakesOne(p, Tail(t)))
    ELSE IF Len(t) = 0 THEN FALSE
    ELSE IF p[1] = "?" THEN GlobMatchBytesStarTakesOne(Tail(p), Tail(t))
    ELSE IF p[1] = t[1] THEN GlobMatchBytesStarTakesOne(Tail(p), Tail(t))
    ELSE FALSE

RECURSIVE GlobMatchBytes(_, _)
\* github.rs:187-197, arm by arm
GlobMatchBytes(p, t) ==
    IF Len(p) = 0 /\ Len(t) = 0 THEN TRUE
    ELSE IF Len(p) > 0 /\ p[1] = "*"
         THEN \/ GlobMatchBytes(Tail(p), t)
              \/ (Len(t) > 0 /\ GlobMatchBytes(p, Tail(t)))
    ELSE IF Len(p) > 0 /\ p[1] = "?" /\ Len(t) > 0
         THEN GlobMatchBytes(Tail(p), Tail(t))
    ELSE IF Len(p) > 0 /\ Len(t) > 0 /\ p[1] = t[1]
         THEN GlobMatchBytes(Tail(p), Tail(t))
    ELSE FALSE

\* github.rs:183-185
GlobMatch(pattern, text) == GlobMatchBytes(ToLower(pattern), ToLower(text))


(***************************************************************************)
(* The execution collaborator (github.rs:33-45) as the scheduler sees it.  *)
(***************************************************************************)
\* backup.rs:36-40 and 48-58: the argument vector of the external action
UpdateCmd(dir, m) ==
    IF m THEN <<"git", "-C", dir, "remote", "update">>
    ELSE <<"git", "-C", dir, "fetch", "--all">>

CloneCmd(nwo, dir, m) ==
    <<"gh", "repo", "clone", nwo, dir, "--">> \o (IF m THEN <<"--mirror">> ELSE <<>>)

\* github.rs:39-42: the error of a nonzero exit, as the lines of its text:
\* "command failed: <cmd>" and then the trimmed standard error
RunCmdError(cmd, stderr) == << <<"command failed:", cmd>> >> \o stderr

\* github.rs:34-37: the error of a command that cannot be started; its text
\* is the one line of the context, "failed to execute: <program>"
SpawnError(cmd) == << <<"failed to execute:", cmd[1]>> >>

\* github.rs:33-45: how a call of run_cmd that returns can end
RunCmdOutcomes == {"ok", "nonzero exit", "not started"}

\* ActionFor with a fault: the branches are swapped
ActionForSwapped(exists) == IF exists THEN "clone" ELSE "update"

\* backup.rs:35,44: which action runs for a destination that exists or not
ActionFor(exists) == IF exists THEN "update" ELSE "clone"

\* backup.rs:42,60: the status a succeeding action maps to
OkStatus(action) == IF action = "update" THEN "Updated" ELSE "Cloned"

\* BackupResult with a fault: an error is reported with the action's success status
BackupResultErrLost(nwo, action, ok, err) ==
    [nwo |-> nwo, status |-> OkStatus(action), error |-> IF ok THEN <<>> ELSE <<err>>]

\* backup.rs:64-75: the BackupResult of the action's Result
BackupResult(nwo, action, ok, err) ==
    IF ok THEN [nwo |-> nwo, status |-> OkStatus(action), error |-> <<>>]
    ELSE [nwo |-> nwo, status |-> "Failed", error |-> <<err>>]

\* backup.rs:14-20
Icon(status) ==
    CASE status = "Cloned" -> "+"
      [] status = "Updated" -> "~"
      [] status = "Failed" -> "!"

(***************************************************************************)
(* State.                                                                  *)
(***************************************************************************)
VARIABLES
    repos,      \* run_backup's repos: the identifiers of the targets
    jobs,       \* run_backup's jobs
    mirror,     \* run_backup's mirror
    destOk,     \* whether create_dir_all/canonicalize of dest succeed
    mock,       \* per target, what its external action did: none yet, ok, fail, hang
    fs,         \* the paths that exist under the destination root
    mainpc,     \* position of the thread that called run_backup
    spawned,    \* number of workers spawned so far
    next_idx,   \* AtomicUsize cursor
    lock,       \* owner of the progress mutex, 0 when free
    count,      \* Progress.count
    results,    \* Progress.results
    pc,         \* position of each worker
    idx,        \* each worker's claimed index (0-based)
    action,     \* each worker's action in backup_repo: clone or update
    result,     \* each worker's BackupResult
    out,        \* lines printed to standard output
    exitStatus, \* exit status of the process, -1 while it runs
    started,    \* per target, how many times backup_repo was entered for it
    launched,   \* per destination path, how many external actions were started on it
    preexist,   \* the paths that existed when run_backup was called
    args,       \* cli.rs: the switches list_orgs and dry_run of the command line
    filters,    \* discover_repos's filters
    username,   \* discover_repos's username
    orgs,       \* discover_repos's orgs: the known organisations
    remote,     \* per owner, what list_repos returns: its records, or Failure
    dpc,        \* position inside discover_repos
    owners,     \* discover_repos's owners
    fetched,    \* the owners list_repos was called for, in call order
    seen,       \* discover_repos's map from identifier to record
    found,      \* discover_repos's repos, and the list it returns
    derr,       \* the error discover_repos returns, <<>> if none
    gpattern,   \* glob_match's pattern
    gtext,      \* glob_match's text
    gmatch      \* what glob_match returned: match or nomatch, none before the call

\* the state of discover_repos and of its caller's switches
discvars == <<args, filters, username, orgs, remote, dpc, owners, fetched, seen,
              found, derr>>

\* the state of a call of glob_match
globvars == <<gpattern, gtext, gmatch>>

vars == <<repos, jobs, mirror, destOk, mock, fs, mainpc, spawned, next_idx, lock,
          count, results, pc, idx, action, result, out, exitStatus, started,
          launched, preexist, discvars, globvars>>

\* what run_backup and its workers never write
inputs == <<repos, jobs, mirror, destOk, preexist, discvars, globvars>>

\* cli.rs:71-73,149: mirror = !no_mirror, and --no-mirror is off by default
DefaultMirror == TRUE

\* cli.rs:40-41,52-53: the switches are off by default
NoArgs == [list_orgs |-> FALSE, dry_run |-> FALSE]

\* cli.rs:104-115 for a command line without any filter option; the optional
\* visibility is <<>> for None and <<v>> for Some(v)
NoFilters ==
    [org |-> <<>>, orgs_only |-> FALSE, personal_only |-> FALSE,
     no_forks |-> FALSE, forks_only |-> FALSE,
     no_archived |-> FALSE, archived_only |-> FALSE,
     visibility |-> <<>>, patterns |-> <<>>, exclude |-> <<>>]

\* discover_repos is not running
DiscoverIdle ==
    /\ args = NoArgs
    /\ filters = NoFilters
    /\ username = <<>>
    /\ orgs = <<>>
    /\ remote = <<>>
    /\ dpc = "off"
    /\ owners = <<>>
    /\ fetched = <<>>
    /\ seen = <<>>
    /\ found = <<>>
    /\ derr = <<>>

\* glob_match is not running
GlobIdle ==
    /\ gpattern = <<>>
    /\ gtext = <<>>
    /\ gmatch = "none"

Workers == 1..MaxJobs
total == Len(repos)
NoResult == [nwo |-> <<>>, status |-> "None", error |-> <<>>]

RECURSIVE SortedSubSeqs(_, _)
\* the subsequences of u of length at most n, order kept
SortedSubSeqs(u, n) ==
    IF n = 0 \/ Len(u) = 0 THEN {<<>>}
    ELSE SortedSubSeqs(Tail(u), n)
         \cup {<<Head(u)>> \o t : t \in SortedSubSeqs(Tail(u), n - 1)}

\* the sequences over S of length at most n
SeqsUpTo(S, n) == UNION {[1..k -> S] : k \in 0..n}

\* run_backup is given the output of discover_repos (cli.rs:116,150): distinct
\* identifiers in ascending order
TargetLists == SortedSubSeqs(NwoUniverse, MaxTargets)

\* the scheduler of run_backup has not started
SchedulerIdle ==
    /\ spawned = 0
    /\ next_idx = 0
    /\ lock = 0
    /\ count = 0
    /\ results = <<>>
    /\ pc = [w \in Workers |-> "idle"]
    /\ idx = [w \in Workers |-> 0]
    /\ action = [w \in Workers |-> "none"]
    /\ result = [w \in Workers |-> NoResult]
    /\ out = <<>>
    /\ exitStatus = -1

\* run_backup is not called
BackupIdle ==
    /\ repos = <<>>
    /\ jobs = 0
    /\ mirror = DefaultMirror
    /\ destOk = TRUE
    /\ mock = <<>>
    /\ preexist = {}
    /\ fs = {}
    /\ started = <<>>
    /\ launched = <<>>
    /\ SchedulerIdle

Init ==
    /\ repos \in TargetLists
    /\ jobs \in 0..MaxJobs
    /\ mirror = DefaultMirror
    /\ destOk \in BOOLEAN
    /\ mock = [i \in 1..Len(repos) |-> "none"]
    /\ preexist \in SUBSET {RepoDir(Dest, repos[i]) : i \in 1..Len(repos)}
    /\ fs = preexist
    /\ mainpc = "start"
    /\ spawned = 0
    /\ next_idx = 0
    /\ lock = 0
    /\ count = 0
    /\ results = <<>>
    /\ pc = [w \in Workers |-> "idle"]
    /\ idx = [w \in Workers |-> 0]
    /\ action = [w \in Workers |-> "none"]
    /\ result = [w \in Workers |-> NoResult]
    /\ out = <<>>
    /\ exitStatus = -1
    /\ started = [i \in 1..Len(repos) |-> 0]
    /\ launched = [d \in {RepoDir(Dest, repos[i]) : i \in 1..Len(repos)} |-> 0]
    /\ DiscoverIdle
    /\ GlobIdle

(***************************************************************************)
(* run_backup, the calling thread.                                         *)
(***************************************************************************)
\* backup.rs:84-97: destination set-up; a failure returns Err, which main
\* (main.rs:6-9) turns into exit status 1
Start ==
    /\ mainpc = "start"
    /\ IF destOk
       THEN /\ mainpc' = "spawn"
            /\ out' = Append(out, [kind |-> "header", workers |-> jobs])
            /\ UNCHANGED exitStatus
       ELSE /\ mainpc' = "exited"
            /\ exitStatus' = 1
            /\ UNCHANGED out
    /\ UNCHANGED <<inputs, mock, fs, spawned, next_idx, lock, count, results, pc, idx,
                   action, result, started, launched>>

\* backup.rs:100-101: one iteration of the spawn loop
Spawn ==
    /\ mainpc = "spawn"
    /\ spawned < jobs
    /\ spawned' = spawned + 1
    /\ pc' = [pc EXCEPT ![spawned + 1] = "claim"]
    /\ UNCHANGED <<inputs, mock, fs, mainpc, next_idx, lock, count, results, idx, action,
                   result, out, exitStatus, started, launched>>

\* AllJoined with a fault: the summary does not wait for every worker
AllJoinedAnyOne == \E w \in 1..jobs : pc[w] = "done"

\* backup.rs:119: the scope ends when every spawned thread has finished
AllJoined == \A w \in 1..jobs : pc[w] = "done"

ScopeEnd ==
    /\ mainpc = "spawn"
    /\ spawned = jobs
    /\ AllJoined
    /\ mainpc' = "summary"
    /\ UNCHANGED <<inputs, mock, fs, spawned, next_idx, lock, count, results, pc, idx,
                   action, result, out, exitStatus, started, launched>>

CountStatus(rs, st) == Cardinality({k \in 1..Len(rs) : rs[k].status = st})

\* backup.rs:130-133: the failed results, in log order
FailedOf(rs) == SelectSeq(rs, LAMBDA r : r.status = "Failed")

\* ExitCode with a fault: the exit(1) of backup.rs:145 is missing
ExitCodeAlwaysZero(failed) == 0

\* backup.rs:140-148 with main.rs:5-10
ExitCode(failed) == IF Len(failed) > 0 THEN 1 ELSE 0

\* backup.rs:121-148
Summarize ==
    /\ mainpc = "summary"
    /\ LET failed == FailedOf(results)
       IN /\ out' = out \o
                  << [kind |-> "summary",
                      cloned |-> CountStatus(results, "Cloned"),
                      updated |-> CountStatus(results, "Updated"),
                      failed |-> Len(failed)] >>
                  \o [k \in 1..Len(failed) |-> [kind |-> "failed", nwo |-> failed[k].nwo]]
          /\ exitStatus' = ExitCode(failed)
    /\ mainpc' = "exited"
    /\ UNCHANGED <<inputs, mock, fs, spawned, next_idx, lock, count, results, pc, idx,
                   action, result, started, launched>>

(***************************************************************************)
(* run_backup, one worker (the closure of backup.rs:101-117).              *)
(***************************************************************************)
\* FetchAdd with a fault: the cursor is read but not advanced (load for fetch_add)
FetchAddLoadOnly(cur) == cur

\* FetchAdd with a fault: the cursor advances by two
FetchAddTwo(cur) == cur + 2

\* backup.rs:102: the new value of the cursor
FetchAdd(cur) == cur + 1

\* PastEnd with a fault: the bound is off by one and the last target is skipped
PastEndOffByOne(i, n) == i + 1 >= n

\* backup.rs:103: the loop ends
PastEnd(i, n) == i >= n

\* backup.rs:102-105; idx is in scope from a successful claim to the end of
\* the iteration
Claim(w) ==
    /\ pc[w] = "claim"
    /\ next_idx' = FetchAdd(next_idx)
    /\ IF PastEnd(next_idx, total)
       THEN /\ pc' = [pc EXCEPT ![w] = "done"]
            /\ UNCHANGED <<idx, started>>
       ELSE /\ pc' = [pc EXCEPT ![w] = "backup"]
            /\ idx' = [idx EXCEPT ![w] = next_idx]
            /\ started' = [started EXCEPT ![next_idx + 1] = @ + 1]
    /\ UNCHANGED <<inputs, mock, fs, mainpc, spawned, lock, count, results, action,
                   result, out, exitStatus, launched>>

\* backup.rs:30-35, 45-47: the destination is looked up; the clone branch
\* creates the parent directory
Check(w) ==
    /\ pc[w] = "backup"
    /\ LET dir == RepoDir(Dest, repos[idx[w] + 1])
       IN /\ action' = [action EXCEPT ![w] = ActionFor(dir \in fs)]
          /\ fs' = IF dir \in fs THEN fs ELSE fs \cup {Parent(dir)}
          /\ launched' = [launched EXCEPT ![dir] = @ + 1]
    /\ pc' = [pc EXCEPT ![w] = "action"]
    /\ UNCHANGED <<inputs, mock, mainpc, spawned, next_idx, lock, count, results, idx,
                   result, out, exitStatus, started>>

\* backup.rs:41-43, 59-75: the external action returns: with success, with a
\* nonzero exit status, or without having been started
Return(w) ==
    /\ pc[w] = "action"
    /\ \E outcome \in RunCmdOutcomes :
         LET nwo == repos[idx[w] + 1]
             dir == RepoDir(Dest, nwo)
             cmd == IF action[w] = "update" THEN UpdateCmd(dir, mirror)
                    ELSE CloneCmd(nwo, dir, mirror)
             ok == outcome = "ok"
             err == IF outcome = "not started" THEN SpawnError(cmd)
                    ELSE RunCmdError(cmd, StderrText)
         IN /\ result' = [result EXCEPT ![w] = BackupResult(nwo, action[w], ok, err)]
            /\ fs' = IF ok THEN fs \cup {dir} ELSE fs
            /\ mock' = [mock EXCEPT ![idx[w] + 1] = IF ok THEN "ok" ELSE "fail"]
    /\ pc' = [pc EXCEPT ![w] = "lock"]
    /\ UNCHANGED <<inputs, mainpc, spawned, next_idx, lock, count, results, idx,
                   action, out, exitStatus, started, launched>>

\* github.rs:34-36: Command::output has no timeout; the external action of
\* this target never returns
Hang(w) ==
    /\ pc[w] = "action"
    /\ mock' = [mock EXCEPT ![idx[w] + 1] = "hang"]
    /\ pc' = [pc EXCEPT ![w] = "hung"]
    /\ UNCHANGED <<inputs, fs, mainpc, spawned, next_idx, lock, count, results, idx,
                   action, result, out, exitStatus, started, launched>>

\* CanLock with a fault: the lock excludes nobody
CanLockAlways(l) == TRUE

\* backup.rs:107: Mutex::lock returns once no other thread holds the guard
CanLock(l) == l = 0

Lock(w) ==
    /\ pc[w] = "lock"
    /\ CanLock(lock)
    /\ lock' = w
    /\ pc' = [pc EXCEPT ![w] = "record"]
    /\ UNCHANGED <<inputs, mock, fs, mainpc, spawned, next_idx, count, results, idx,
                   action, result, out, exitStatus, started, launched>>

\* backup.rs:108
Count(w) ==
    /\ pc[w] = "record"
    /\ count' = count + 1
    /\ pc' = [pc EXCEPT ![w] = "report"]
    /\ UNCHANGED <<inputs, mock, fs, mainpc, spawned, next_idx, lock, results, idx,
                   action, result, out, exitStatus, started, launched>>

\* backup.rs:109: the number shown for the outcome
ProgressNumber(c) == c

\* Release with a fault: the guard is leaked and the mutex stays locked
ReleaseLeaked(w) == w

\* backup.rs:117: the guard is dropped at the end of the iteration
Release(w) == 0

\* backup.rs:111-115: the line printed for an error, if it has a first line
ErrorLines(r) ==
    IF r.error # <<>> /\ Len(r.error[1]) > 0
    THEN << [kind |-> "errline", text |-> r.error[1][1]] >>
    ELSE <<>>

\* backup.rs:109-117; the iteration's locals go out of scope
Record(w) ==
    /\ pc[w] = "report"
    /\ out' = out \o << [kind |-> "progress", i |-> ProgressNumber(count),
                         total |-> total, icon |-> Icon(result[w].status),
                         nwo |-> result[w].nwo] >>
                  \o ErrorLines(result[w])
    /\ results' = Append(results, result[w])
    /\ result' = [result EXCEPT ![w] = NoResult]
    /\ idx' = [idx EXCEPT ![w] = 0]
    /\ action' = [action EXCEPT ![w] = "none"]
    /\ lock' = Release(w)
    /\ pc' = [pc EXCEPT ![w] = "claim"]
    /\ UNCHANGED <<inputs, mock, fs, mainpc, spawned, next_idx, count, exitStatus,
                   started, launched>>

Next ==
    \/ Start
    \/ Spawn
    \/ ScopeEnd
    \/ Summarize
    \/ \E w \in Workers : Claim(w)
    \/ \E w \in Workers : Check(w)
    \/ \E w \in Workers : Return(w)
    \/ \E w \in Workers : Hang(w)
    \/ \E w \in Workers : Lock(w)
    \/ \E w \in Workers : Count(w)
    \/ \E w \in Workers : Record(w)

Spec == Init /\ [][Next]_vars

(***************************************************************************)
(* Scheduling. The operating system keeps scheduling the process: while    *)
(* some thread can take a step, a step is eventually taken. Nothing is     *)
(* assumed about which thread runs, and the mutex need not be fair. An     *)
(* external action either returns or hangs for ever.                       *)
(***************************************************************************)
Fairness == WF_vars(Next)

\* the target lists of the liveness specification: the first n identifiers
\* of the universe, for every n up to the bound
PrefixLists == {SubSeq(NwoUniverse, 1, n) : n \in 0..MaxTargets}

LiveInit == Init /\ repos \in PrefixLists

LiveSpec == LiveInit /\ [][Next]_vars /\ Fairness

(***************************************************************************)
(* discover_repos (github.rs:83-181): data.                                *)
(***************************************************************************)
MaxOrgs == 2
MaxExplicit == 2
MaxRepos == 2

\* github.rs:50-56: the login get_username returns
User == <<"u">>

\* github.rs:58-66: the organisations get_orgs can return, in its order
OrgUniverse == << <<"A">>, <<"b">>, <<"C">> >>

\* names given with --org: two that are known organisations in another
\* letter case and one that is no organisation
ExplicitNames == {<<"a">>, <<"B">>, <<"x">>}

Range(s) == {s[k] : k \in 1..Len(s)}

\* github.rs:8-18; ssh_url is read by nobody and left out
Repo(nwo, fork, archived, vis) ==
    [name_with_owner |-> nwo, is_fork |-> fork, is_archived |-> archived,
     visibility |-> vis]

\* the visibility as the directory service spells it, and as --visibility
\* does (cli.rs:56-58)
PUBLIC == <<"P", "U", "B", "L", "I", "C">>
PRIVATE == <<"P", "R", "I", "V", "A", "T", "E">>
INTERNAL == <<"I", "N", "T", "E", "R", "N", "A", "L">>
LowerVisibilities == {ToLower(PUBLIC), ToLower(PRIVATE), ToLower(INTERNAL)}

\* github.rs:68-81: what list_repos returns for an owner
Listed(rs) == [ok |-> TRUE, repos |-> rs]
Failed == [ok |-> FALSE, repos |-> <<>>]

\* the one repository of an owner in the scope inputs
OwnRepo(o) == Repo(o \o <<Slash, "r">>, FALSE, FALSE, PUBLIC)

\* cli.rs:26-58: the combinations of options clap accepts
ClapAccepts(f) ==
    /\ ~(f.orgs_only /\ f.personal_only)
    /\ ~(f.personal_only /\ f.org # <<>>)
    /\ ~(f.no_forks /\ f.forks_only)
    /\ ~(f.no_archived /\ f.archived_only)
    /\ f.visibility \in {<<>>} \cup {<<v>> : v \in LowerVisibilities}

(***************************************************************************)
(* discover_repos: the owner set (github.rs:84-111).                       *)
(***************************************************************************)
\* InvalidOwners with a fault: the names are compared as they are spelled
InvalidOwnersCaseSensitive(f, os) ==
    SelectSeq(f.org, LAMBDA o : ~\E k \in 1..Len(os) : os[k] = o)

\* github.rs:85-89
InvalidOwners(f, os) ==
    SelectSeq(f.org, LAMBDA o : ~\E k \in 1..Len(os) : EqIgnoreAsciiCase(os[k], o))

\* github.rs:90-98: the error names the invalid owners and the known orgs
NotMember(invalid, os) ==
    [kind |-> "not a member of org(s)", invalid |-> invalid, known |-> os]

\* github.rs:99-102
MatchingOrgs(f, os) ==
    SelectSeq(os, LAMBDA o : \E k \in 1..Len(f.org) : EqIgnoreAsciiCase(f.org[k], o))

\* ScopeOwners with a fault: the two scope switches are not looked at
ScopeOwnersIgnoringSwitches(f, user, os) == <<user>> \o os

\* github.rs:103-111
ScopeOwners(f, user, os) ==
    IF f.orgs_only THEN os
    ELSE IF f.personal_only THEN <<user>>
    ELSE <<user>> \o os

(***************************************************************************)
(* discover_repos: merge, filters and sort (github.rs:119-180).            *)
(***************************************************************************)
\* Propagates with a fault: a failed listing is taken for an empty one
PropagatesNever(resp) == FALSE

\* github.rs:121: the ? operator returns the error of list_repos
Propagates(resp) == ~resp.ok

\* github.rs:68-81: the error of a listing that failed
ListFailed(o) == [kind |-> "list_repos failed", owner |-> o]

\* OrInsert with a fault: the record seen last replaces the earlier one
OrInsertOverwrite(map, r) ==
    [k \in DOMAIN map \cup {r.name_with_owner} |->
        IF k = r.name_with_owner THEN r ELSE map[k]]

\* github.rs:123-124: entry(key).or_insert(repo)
OrInsert(map, r) ==
    IF r.name_with_owner \in DOMAIN map THEN map
    ELSE [k \in DOMAIN map \cup {r.name_with_owner} |->
            IF k = r.name_with_owner THEN r ELSE map[k]]

RECURSIVE InsertAll(_, _)
\* github.rs:122-125
InsertAll(map, rs) ==
    IF Len(rs) = 0 THEN map
    ELSE InsertAll(OrInsert(map, Head(rs)), Tail(rs))

RECURSIVE Perms(_)
\* the orders in which a HashMap can hand out its keys
Perms(S) ==
    IF S = {} THEN {<<>>}
    ELSE UNION {{<<x>> \o q : q \in Perms(S \ {x})} : x \in S}

\* github.rs:128: into_values().collect() for an iteration order
ValuesIn(map, order) == [k \in 1..Len(order) |-> map[order[k]]]

\* github.rs:161-162, 168-169: the name after the first separator, "" if none
BareName(nwo) ==
    LET sp == SplitOnce(nwo, Slash)
    IN IF sp[1] THEN sp[3] ELSE <<>>

MatchesAny(pats, name) == \E k \in 1..Len(pats) : GlobMatch(pats[k], name)

\* github.rs:130-137
NoForks(f, rs) == IF f.no_forks THEN SelectSeq(rs, LAMBDA r : ~r.is_fork) ELSE rs

\* github.rs:139-141
ForksOnly(f, rs) == IF f.forks_only THEN SelectSeq(rs, LAMBDA r : r.is_fork) ELSE rs

\* github.rs:143-150
NoArchived(f, rs) ==
    IF f.no_archived THEN SelectSeq(rs, LAMBDA r : ~r.is_archived) ELSE rs

\* github.rs:152-154
ArchivedOnly(f, rs) ==
    IF f.archived_only THEN SelectSeq(rs, LAMBDA r : r.is_archived) ELSE rs

\* github.rs:156-158
VisibilityIs(f, rs) ==
    IF f.visibility # <<>>
    THEN SelectSeq(rs, LAMBDA r : EqIgnoreAsciiCase(r.visibility, f.visibility[1]))
    ELSE rs

\* github.rs:160-165
Include(f, rs) ==
    IF f.patterns # <<>>
    THEN SelectSeq(rs, LAMBDA r : MatchesAny(f.patterns, BareName(r.name_with_owner)))
    ELSE rs

\* Exclude with a fault: the exclude list is not applied
ExcludeSkipped(f, rs) == rs

\* github.rs:167-172
Exclude(f, rs) ==
    IF f.exclude # <<>>
    THEN SelectSeq(rs, LAMBDA r : ~MatchesAny(f.exclude, BareName(r.name_with_owner)))
    ELSE rs

\* github.rs:130-172: the stages in the order of the code
ApplyFilters(f, rs) ==
    Exclude(f, Include(f, VisibilityIs(f,
        ArchivedOnly(f, NoArchived(f, ForksOnly(f, NoForks(f, rs)))))))

\* github.rs:131-136, 144-149: the lines "Excluded n ..."
ExcludedLines(f, rs) ==
    LET forks == Len(rs) - Len(NoForks(f, rs))
        afterForks == ForksOnly(f, NoForks(f, rs))
        archived == Len(afterForks) - Len(NoArchived(f, afterForks))
    IN (IF forks > 0 THEN <<[kind |-> "excluded", what |-> "fork", n |-> forks]>>
        ELSE <<>>)
       \o (IF archived > 0
           THEN <<[kind |-> "excluded", what |-> "archived", n |-> archived]>>
           ELSE <<>>)

\* the place of keys[i] in a stable ascending sort of the keys
Rank(keys, i) ==
    Cardinality({j \in 1..Len(keys) :
                    \/ StrLess(keys[j], keys[i])
                    \/ (j < i /\ ~StrLess(keys[i], keys[j]))}) + 1

\* slice::sort_by is stable: for every place, the index it takes its element from
SortOrder(keys) ==
    [k \in 1..Len(keys) |-> CHOOSE i \in 1..Len(keys) : Rank(keys, i) = k]

\* SortKey with a fault: the identifier is compared as it is spelled
SortKeyAsSpelled(r) == r.name_with_owner

\* github.rs:175-177
SortKey(r) == ToLower(r.name_with_owner)

\* github.rs:174-178
SortRepos(rs) ==
    LET order == SortOrder([i \in 1..Len(rs) |-> SortKey(rs[i])])
    IN [k \in 1..Len(rs) |-> rs[order[k]]]

(***************************************************************************)
(* discover_repos: the steps of a call.                                    *)
(***************************************************************************)
\* what discover_repos is called with
dinputs == <<args, filters, username, orgs, remote>>

\* the state of run_backup but for the output and the position of main
runvars == <<repos, jobs, mirror, destOk, preexist, mock, fs, spawned, next_idx, lock,
             count, results, pc, idx, action, result, started, launched>>

\* github.rs:84-117: the owner set, or the error of an invalid explicit owner
Resolve ==
    /\ dpc = "resolve"
    /\ IF filters.org # <<>> /\ InvalidOwners(filters, orgs) # <<>>
       THEN /\ derr' = <<NotMember(InvalidOwners(filters, orgs), orgs)>>
            /\ dpc' = "failed"
            /\ UNCHANGED <<owners, out>>
       ELSE /\ owners' = IF filters.org # <<>> THEN MatchingOrgs(filters, orgs)
                         ELSE ScopeOwners(filters, username, orgs)
            /\ out' = Append(out, [kind |-> "scanning", owners |-> owners'])
            /\ dpc' = "fetch"
            /\ UNCHANGED derr
    /\ UNCHANGED <<dinputs, fetched, seen, found, globvars, runvars, mainpc, exitStatus>>

\* github.rs:120-126: one iteration of the loop over the owners; an error of
\* list_repos is returned and the map is dropped
Fetch ==
    /\ dpc = "fetch"
    /\ Len(fetched) < Len(owners)
    /\ LET o == owners[Len(fetched) + 1]
       IN /\ fetched' = Append(fetched, o)
          /\ IF Propagates(remote[o])
             THEN /\ derr' = <<ListFailed(o)>>
                  /\ dpc' = "failed"
                  /\ seen' = <<>>
             ELSE /\ seen' = InsertAll(seen, remote[o].repos)
                  /\ UNCHANGED <<derr, dpc>>
    /\ UNCHANGED <<dinputs, owners, found, globvars, runvars, mainpc, out, exitStatus>>

\* github.rs:128-180: the values of the map in the order the map hands them
\* out, the filters, the sort, the returned list
Finish ==
    /\ dpc = "fetch"
    /\ Len(fetched) = Len(owners)
    /\ \E order \in Perms(DOMAIN seen) :
         LET all == ValuesIn(seen, order)
         IN /\ found' = SortRepos(ApplyFilters(filters, all))
            /\ out' = out \o ExcludedLines(filters, all)
                          \o <<[kind |-> "found", n |-> Len(found')]>>
    /\ dpc' = "done"
    /\ UNCHANGED <<dinputs, owners, fetched, seen, derr, globvars, runvars, mainpc,
                   exitStatus>>

\* a call of discover_repos
DiscoverCall ==
    /\ owners = <<>>
    /\ fetched = <<>>
    /\ seen = <<>>
    /\ found = <<>>
    /\ derr = <<>>

\* inputs that vary the scope: the known organisations, the explicit owners,
\* the two scope switches, and which listings fail
ScopeFilters ==
    {f \in {[NoFilters EXCEPT !.org = e, !.orgs_only = oo, !.personal_only = po] :
               e \in SeqsUpTo(ExplicitNames, MaxExplicit), oo \in BOOLEAN, po \in BOOLEAN} :
        ClapAccepts(f)}

ScopeInputs ==
    /\ username = User
    /\ orgs \in {SubSeq(OrgUniverse, 1, n) : n \in 0..MaxOrgs}
    /\ filters \in ScopeFilters
    /\ remote \in {[o \in {User} \cup Range(orgs) |->
                      IF o \in bad THEN Failed ELSE Listed(<<OwnRepo(o)>>)] :
                   bad \in SUBSET ({User} \cup Range(orgs))}

\* inputs that vary the listings of two owners: identifiers that differ in
\* letter case only, an identifier that sorts differently with and without
\* case, and records of one identifier that differ in a secondary field
MergeIds == {<<"a", "/", "r">>, <<"A", "/", "r">>, <<"B", "/", "s">>}

MergeRecords == {Repo(id, fork, FALSE, PUBLIC) : id \in MergeIds, fork \in BOOLEAN}

MergeInputs ==
    /\ username = User
    /\ orgs = SubSeq(OrgUniverse, 1, 1)
    /\ filters = NoFilters
    /\ remote \in [{User, OrgUniverse[1]} ->
                     {Listed(rs) : rs \in SeqsUpTo(MergeRecords, MaxRepos)}]

\* inputs that vary the filters over the listing of one owner
FilterCatalogue ==
    << Repo(<<"u", "/", "r">>, FALSE, FALSE, PUBLIC),
       Repo(<<"u", "/", "r", "s">>, TRUE, FALSE, PUBLIC),
       Repo(<<"u", "/", "s">>, FALSE, TRUE, PRIVATE),
       Repo(<<"u", "/", "S", "r">>, TRUE, TRUE, PRIVATE),
       Repo(<<"u", "/", "b">>, TRUE, FALSE, INTERNAL),
       Repo(<<"u", "/", "r", "b">>, FALSE, TRUE, PUBLIC) >>

IncludeLists == {<<>>, << <<"r", "*">> >>, << <<"?">> >>, << <<"S", "*">>, <<"b">> >>}

ExcludeLists == {<<>>, << <<"*", "s">> >>, << <<"R", "?">>, <<"b">> >>}

FilterChoices ==
    {f \in {[NoFilters EXCEPT !.personal_only = TRUE,
                              !.no_forks = nf, !.forks_only = fo,
                              !.no_archived = na, !.archived_only = ao,
                              !.visibility = v, !.patterns = p, !.exclude = x] :
               nf \in BOOLEAN, fo \in BOOLEAN, na \in BOOLEAN, ao \in BOOLEAN,
               v \in {<<>>} \cup {<<w>> : w \in LowerVisibilities},
               p \in IncludeLists, x \in ExcludeLists} :
        ClapAccepts(f)}

FilterInputs ==
    /\ username = User
    /\ orgs = <<>>
    /\ filters \in FilterChoices
    /\ remote \in [{User} -> {Listed(rs) : rs \in SortedSubSeqs(FilterCatalogue, MaxRepos)}]

DiscoverInit ==
    /\ mainpc = "discover"
    /\ dpc = "resolve"
    /\ args = NoArgs
    /\ DiscoverCall
    /\ (ScopeInputs \/ MergeInputs \/ FilterInputs)
    /\ BackupIdle
    /\ GlobIdle

DiscoverNext ==
    \/ Resolve
    \/ Fetch
    \/ Finish

DiscoverSpec == DiscoverInit /\ [][DiscoverNext]_vars

(***************************************************************************)
(* cli::run (cli.rs:84-153): from the command line to run_backup.          *)
(***************************************************************************)
\* cli.rs:86-91: check_gh, get_username and get_orgs; an error of one of
\* them is returned, which main turns into exit status 1 (main.rs:6-9)
CliStart ==
    /\ mainpc = "cli"
    /\ \E pre \in {"ok", "no gh or user", "no orgs"} :
         IF pre = "ok"
         THEN /\ out' = Append(out, [kind |-> "authenticated", user |-> username])
              /\ mainpc' = IF args.list_orgs THEN "list_orgs" ELSE "discover"
              /\ dpc' = IF args.list_orgs THEN dpc ELSE "resolve"
              /\ UNCHANGED exitStatus
         ELSE /\ out' = IF pre = "no orgs"
                        THEN Append(out, [kind |-> "authenticated", user |-> username])
                        ELSE out
              /\ mainpc' = "exited"
              /\ exitStatus' = 1
              /\ UNCHANGED dpc
    /\ UNCHANGED <<dinputs, owners, fetched, seen, found, derr, globvars, runvars>>

\* cli.rs:93-102: --list-orgs calls list_repos for each organisation in
\* lowercased order and prints it with the length of its listing, up to the
\* first listing that fails
ListOrgs ==
    /\ mainpc = "list_orgs"
    /\ LET order == SortOrder([i \in 1..Len(orgs) |-> ToLower(orgs[i])])
           sorted == [k \in 1..Len(orgs) |-> orgs[order[k]]]
           bad == {k \in 1..Len(sorted) : ~remote[sorted[k]].ok}
           called == IF bad = {} THEN Len(sorted)
                     ELSE CHOOSE k \in bad : \A j \in bad : k <= j
           shown == IF bad = {} THEN called ELSE called - 1
       IN /\ fetched' = SubSeq(sorted, 1, called)
          /\ out' = out \o <<[kind |-> "orgs", n |-> Len(orgs)]>>
                        \o [k \in 1..shown |->
                              [kind |-> "org", name |-> sorted[k],
                               n |-> Len(remote[sorted[k]].repos)]]
          /\ exitStatus' = IF bad = {} THEN 0 ELSE 1
    /\ mainpc' = "exited"
    /\ UNCHANGED <<dinputs, dpc, owners, seen, found, derr, globvars, runvars>>

\* cli.rs:116 with main.rs:6-9: the error of discover_repos ends the run
DiscoverFailed ==
    /\ mainpc = "discover"
    /\ dpc = "failed"
    /\ mainpc' = "exited"
    /\ exitStatus' = 1
    /\ UNCHANGED <<discvars, globvars, runvars, out>>

\* cli.rs:118-121
NoReposMatched ==
    /\ mainpc = "discover"
    /\ dpc = "done"
    /\ Len(found) = 0
    /\ out' = Append(out, [kind |-> "no repos matched"])
    /\ mainpc' = "exited"
    /\ exitStatus' = 0
    /\ UNCHANGED <<discvars, globvars, runvars>>

\* cli.rs:126-135: the tags of a repository in the dry-run listing
DryRunTags(r) ==
    (IF r.is_fork THEN <<"fork">> ELSE <<>>)
    \o (IF r.is_archived THEN <<"archived">> ELSE <<>>)
    \o (IF Len(r.visibility) > 0 THEN <<ToLower(r.visibility)>> ELSE <<>>)

\* cli.rs:123-147
DryRun ==
    /\ mainpc = "discover"
    /\ dpc = "done"
    /\ Len(found) > 0
    /\ args.dry_run
    /\ out' = out \o [k \in 1..Len(found) |->
                        [kind |-> "dry run", i |-> k, total |-> Len(found),
                         nwo |-> found[k].name_with_owner, tags |-> DryRunTags(found[k])]]
                  \o <<[kind |-> "total", n |-> Len(found)]>>
    /\ mainpc' = "exited"
    /\ exitStatus' = 0
    /\ UNCHANGED <<discvars, globvars, runvars>>

\* cli.rs:149-150: run_backup is called with the repositories found
CallRunBackup ==
    /\ mainpc = "discover"
    /\ dpc = "done"
    /\ Len(found) > 0
    /\ ~args.dry_run
    /\ repos' = [k \in 1..Len(found) |-> found[k].name_with_owner]
    /\ mock' = [i \in 1..Len(found) |-> "none"]
    /\ started' = [i \in 1..Len(found) |-> 0]
    /\ launched' = [d \in {RepoDir(Dest, found[k].name_with_owner) : k \in 1..Len(found)}
                      |-> 0]
    /\ mainpc' = "start"
    /\ UNCHANGED <<discvars, globvars, jobs, mirror, destOk, preexist, fs, spawned,
                   next_idx, lock, count, results, pc, idx, action, result, out,
                   exitStatus>>

\* the owners of a run with one known organisation
CliOwners == {User, OrgUniverse[1]}

CliInit ==
    /\ mainpc = "cli"
    /\ dpc = "off"
    /\ args \in [list_orgs : BOOLEAN, dry_run : BOOLEAN]
    /\ username = User
    /\ orgs = SubSeq(OrgUniverse, 1, 1)
    /\ filters = NoFilters
    /\ remote \in {[o \in CliOwners |->
                      IF o \in bad THEN Failed
                      ELSE IF o \in empty THEN Listed(<<>>)
                      ELSE Listed(<<OwnRepo(o)>>)] :
                   bad \in SUBSET CliOwners, empty \in SUBSET CliOwners}
    /\ DiscoverCall
    /\ repos = <<>>
    /\ mock = <<>>
    /\ started = <<>>
    /\ launched = <<>>
    /\ jobs \in 0..MaxJobs
    /\ mirror = DefaultMirror
    /\ destOk \in BOOLEAN
    /\ preexist \in SUBSET {RepoDir(Dest, OwnRepo(o).name_with_owner) : o \in CliOwners}
    /\ fs = preexist
    /\ SchedulerIdle
    /\ GlobIdle

CliNext ==
    \/ CliStart
    \/ ListOrgs
    \/ Resolve
    \/ Fetch
    \/ Finish
    \/ DiscoverFailed
    \/ NoReposMatched
    \/ DryRun
    \/ CallRunBackup
    \/ Next

CliSpec == CliInit /\ [][CliNext]_vars

(***************************************************************************)
(* A call of glob_match on every pattern and text of bounded length.       *)
(***************************************************************************)
MaxGlobLen == 3

GlobPatternChars == {"a", "A", "b", "*", "?"}

GlobTextChars == {"a", "A", "b"}

GlobInit ==
    /\ gpattern \in SeqsUpTo(GlobPatternChars, MaxGlobLen)
    /\ gtext \in SeqsUpTo(GlobTextChars, MaxGlobLen)
    /\ gmatch = "none"
    /\ mainpc = "glob"
    /\ BackupIdle
    /\ DiscoverIdle

\* github.rs:183-185: the call returns
GlobCall ==
    /\ gmatch = "none"
    /\ gmatch' = IF GlobMatch(gpattern, gtext) THEN "match" ELSE "nomatch"
    /\ UNCHANGED <<gpattern, gtext, discvars, repos, jobs, mirror, destOk, mock, fs,
                   mainpc, spawned, next_idx, lock, count, results, pc, idx, action,
                   result, out, exitStatus, started, launched, preexist>>

GlobNext == GlobCall

GlobSpec == GlobInit /\ [][GlobNext]_vars

(***************************************************************************)
(* Vocabulary of the properties.                                           *)
(***************************************************************************)
\* the worker has claimed a target and not yet appended its outcome
Holding(w) == pc[w] \in {"backup", "action", "hung", "lock", "record", "report"}

\* the worker is inside backup_repo
InFlight(w) == pc[w] \in {"backup", "action", "hung"}

\* every worker of the pool was spawned and has left its loop
WorkersExited == mainpc # "start" /\ spawned = jobs /\ \A w \in 1..jobs : pc[w] = "done"

OutcomesOf(i) == {k \in 1..Len(results) : results[k].nwo = repos[i]}

ProgressLines == SelectSeq(out, LAMBDA l : l.kind = "progress")

Successes(rs) == CountStatus(rs, "Cloned") + CountStatus(rs, "Updated")

SummaryLines == SelectSeq(out, LAMBDA l : l.kind = "summary")

FailedLines == SelectSeq(out, LAMBDA l : l.kind = "failed")

(***************************************************************************)
(* C1. Each target index is claimed by at most one worker: backup_repo is  *)
(* entered at most once for every target, and two workers never hold the   *)
(* same index.                                                             *)
(***************************************************************************)
C1_ClaimedOnce ==
    /\ \A i \in 1..total : started[i] <= 1
    /\ \A v, w \in Workers : (v # w /\ Holding(v) /\ Holding(w)) => idx[v] # idx[w]
    /\ \A w \in Workers : Holding(w) => (idx[w] < total /\ started[idx[w] + 1] = 1)

\* two workers hold different targets at once and every target was claimed
C1_Witness ==
    /\ total = 3
    /\ Holding(1) /\ Holding(2)
    /\ \A i \in 1..total : started[i] = 1

(***************************************************************************)
(* C2. With 1 <= jobs <= N, once all workers have exited the result log    *)
(* holds exactly N outcomes, exactly one per target.                       *)
(***************************************************************************)
C2_OneOutcomePerTarget ==
    (WorkersExited /\ 1 <= jobs /\ jobs <= total) =>
        /\ Len(results) = total
        /\ \A i \in 1..total : Cardinality(OutcomesOf(i)) = 1

C2_Witness ==
    /\ WorkersExited /\ jobs = 2 /\ total = 3
    /\ Len(results) = 3
    /\ results[1].nwo # repos[1]

(***************************************************************************)
(* C3 as stated. The progress numbers are 0..N-1: the k-th outcome         *)
(* appended to the log carries the number k-1.                             *)
(***************************************************************************)
C3_NumbersFromZero ==
    \A k \in 1..Len(ProgressLines) : ProgressLines[k].i = k - 1

(***************************************************************************)
(* C3 as amended. The progress numbers are 1..N with no duplicates or      *)
(* gaps: the k-th outcome appended to the log under the lock (completion   *)
(* order) is the k-th progress line and carries the number k, and once the *)
(* workers of a non-empty pool have exited the numbers are exactly 1..N.   *)
(***************************************************************************)
C3_NumbersFromOne ==
    /\ Len(ProgressLines) = Len(results)
    /\ \A k \in 1..Len(ProgressLines) :
         /\ ProgressLines[k].i = k
         /\ ProgressLines[k].nwo = results[k].nwo
    /\ (WorkersExited /\ jobs >= 1) => Len(ProgressLines) = total

\* three outcomes were numbered, in an order that is not the queue order
C3_Witness ==
    /\ jobs = 2 /\ total = 3 /\ Len(ProgressLines) = 3
    /\ ProgressLines[1].nwo = repos[2]
    /\ ProgressLines[3].i = 3

(***************************************************************************)
(* C4. Whenever run_backup completes with a summary, for every worker      *)
(* count including 0, Cloned + Updated + Failed equals the number of       *)
(* targets.                                                                *)
(***************************************************************************)
C4_CountsSumToTargets ==
    (mainpc = "exited" /\ Len(SummaryLines) = 1) =>
        SummaryLines[1].cloned + SummaryLines[1].updated + SummaryLines[1].failed = total

(***************************************************************************)
(* C5. A target whose destination path existed when run_backup was called  *)
(* is only updated and ends Updated or Failed; one whose path did not      *)
(* exist is only cloned and ends Cloned or Failed.                         *)
(***************************************************************************)
C5_OutcomeFollowsExistence ==
    /\ \A k \in 1..Len(results) :
         IF RepoDir(Dest, results[k].nwo) \in preexist
         THEN results[k].status \in {"Updated", "Failed"}
         ELSE results[k].status \in {"Cloned", "Failed"}
    /\ \A w \in Workers :
         pc[w] \in {"action", "hung"} =>
             action[w] = (IF RepoDir(Dest, repos[idx[w] + 1]) \in preexist
                          THEN "update" ELSE "clone")

C5_Witness ==
    /\ Len(results) = 3
    /\ \E k \in 1..3 : results[k].status = "Updated"
    /\ \E k \in 1..3 : results[k].status = "Cloned"
    /\ \E k \in 1..3 : /\ results[k].status = "Failed"
                       /\ RepoDir(Dest, results[k].nwo) \in preexist

(***************************************************************************)
(* C6. A failing action is local to its target: once the workers of a      *)
(* non-empty pool have exited, every target's action has run exactly once, *)
(* each target has one outcome, Failed exactly when its action failed; so  *)
(* one failing target among N-1 succeeding ones gives N-1 successes and 1  *)
(* Failed.                                                                 *)
(***************************************************************************)
C6_FailureIsLocal ==
    (WorkersExited /\ jobs >= 1) =>
        /\ \A i \in 1..total :
             /\ mock[i] \in {"ok", "fail"}
             /\ started[i] = 1
             /\ Cardinality(OutcomesOf(i)) = 1
             /\ \A k \in OutcomesOf(i) : (results[k].status = "Failed") <=> (mock[i] = "fail")
        /\ Cardinality({i \in 1..total : mock[i] = "fail"}) = 1 =>
             /\ CountStatus(results, "Failed") = 1
             /\ Successes(results) = total - 1

\* the failing target was recorded first and the two others were completed
C6_Witness ==
    /\ WorkersExited /\ total = 3
    /\ Cardinality({i \in 1..total : mock[i] = "fail"}) = 1
    /\ results[1].status = "Failed"
    /\ Successes(results) = 2

(***************************************************************************)
(* C7 as stated. The terminal status of a run over at least one target is  *)
(* 1 if and only if the failed-count is greater than zero.                 *)
(***************************************************************************)
C7_NonzeroIffFailed ==
    (mainpc = "exited" /\ total >= 1) =>
        (exitStatus = 1 <=> CountStatus(results, "Failed") > 0)

(***************************************************************************)
(* C7 as amended. A run whose destination root was set up ends with status *)
(* 1 if and only if the failed-count is greater than zero, else 0, and its *)
(* summary lists the identifier of every failed target; a run whose        *)
(* destination root cannot be set up ends with status 1 with no outcome    *)
(* and no summary.                                                         *)
(***************************************************************************)
C7_ExitStatus ==
    mainpc = "exited" =>
        IF destOk
        THEN /\ exitStatus = (IF CountStatus(results, "Failed") > 0 THEN 1 ELSE 0)
             /\ Len(SummaryLines) = 1
             /\ SummaryLines[1].failed = CountStatus(results, "Failed")
             /\ Len(FailedLines) = Len(FailedOf(results))
             /\ \A k \in 1..Len(FailedLines) : FailedLines[k].nwo = FailedOf(results)[k].nwo
        ELSE /\ exitStatus = 1
             /\ results = <<>>
             /\ SummaryLines = <<>>

\* a run with successes and one failure has ended with status 1
C7_Witness ==
    /\ mainpc = "exited" /\ destOk /\ exitStatus = 1
    /\ Successes(results) = 2
    /\ Len(FailedLines) = 1

(***************************************************************************)
(* C8. The summary and the exit status of a run whose destination was set  *)
(* up are produced only after every worker has been spawned and joined and *)
(* every claimed target has its outcome in the log; the process never      *)
(* exits on a failed target while a target is pending or in flight.        *)
(***************************************************************************)
C8_SummaryAfterJoin ==
    /\ (destOk /\ (mainpc \in {"summary", "exited"} \/ SummaryLines # <<>>)) =>
         /\ spawned = jobs
         /\ \A w \in 1..jobs : pc[w] = "done"
         /\ \A w \in Workers : ~Holding(w)
         /\ \A i \in 1..total : started[i] > 0 => OutcomesOf(i) # {}
    /\ (destOk /\ exitStatus = 1) =>
         /\ SummaryLines # <<>>
         /\ \A i \in 1..total : started[i] = 1 /\ OutcomesOf(i) # {}

\* the run ended with status 1 after both workers completed all three targets
C8_Witness ==
    /\ mainpc = "exited" /\ destOk /\ exitStatus = 1
    /\ jobs = 2 /\ total = 3
    /\ results[1].status = "Failed"

(***************************************************************************)
(* C9. With at least two workers, a worker whose external action never     *)
(* returns holds neither the cursor nor the progress lock, and as long as  *)
(* not every worker of the pool hangs, every target whose action does not  *)
(* hang is eventually claimed and has its outcome recorded.                *)
(***************************************************************************)
HungWorkers == {w \in Workers : pc[w] = "hung"}

OthersRecorded == \A i \in 1..total : mock[i] = "hang" \/ OutcomesOf(i) # {}

C9_OthersProceed ==
    /\ [](\A w \in HungWorkers : lock # w)
    /\ (destOk /\ jobs >= 2) ~> (Cardinality(HungWorkers) = jobs \/ OthersRecorded)

\* one worker hangs on a target and the other worker has recorded the rest
C9_Witness ==
    /\ jobs = 2 /\ total = 3
    /\ Cardinality(HungWorkers) = 1
    /\ Cardinality({i \in 1..total : mock[i] = "hang"}) = 1
    /\ Len(results) = 2

(***************************************************************************)
(* C10. With pairwise distinct identifiers of the form owner/name, two     *)
(* jobs in flight at the same time never have the same destination path,   *)
(* and no destination path has an action started on it more than once in   *)
(* the run; the path dest/owner/name is different for different            *)
(* identifiers of that form.                                               *)
(***************************************************************************)
NameChars == {"a", "b"}

\* owner and name components: one or two characters, no separator
Components == {<<c>> : c \in NameChars} \cup {<<c, e>> : c, e \in NameChars}

WellFormedIds == {o \o <<Slash>> \o n : o, n \in Components}

C10_DistinctPaths ==
    /\ \A v, w \in Workers :
         (v # w /\ InFlight(v) /\ InFlight(w)) =>
             RepoDir(Dest, repos[idx[v] + 1]) # RepoDir(Dest, repos[idx[w] + 1])
    /\ \A d \in DOMAIN launched : launched[d] <= 1
    /\ mainpc = "start" =>
         \A x, y \in WellFormedIds : x # y => RepoDir(Dest, x) # RepoDir(Dest, y)

\* two same-named repositories of different owners are in flight together
C10_Witness ==
    /\ pc[1] = "action" /\ pc[2] = "action"
    /\ OwnerName(repos[idx[1] + 1])[2] = OwnerName(repos[idx[2] + 1])[2]
    /\ launched[RepoDir(Dest, repos[idx[1] + 1])] = 1
    /\ launched[RepoDir(Dest, repos[idx[2] + 1])] = 1

(***************************************************************************)
(* C16. glob_match returns on every pattern and text, and its answer is    *)
(* that of the reference glob semantics on the lowercased inputs: a star   *)
(* stands for zero or more characters, a question mark for exactly one,    *)
(* any other character for itself. "*" matches every text, the empty       *)
(* pattern matches the empty text only, "a?c" matches "abc" and not "ac",  *)
(* and "A*" matches "apple".                                               *)
(***************************************************************************)
RECURSIVE RefPositions(_, _, _)
\* the lengths j such that the first k tokens of p match the first j
\* characters of t
RefPositions(p, t, k) ==
    IF k = 0 THEN {0}
    ELSE LET S == RefPositions(p, t, k - 1)
         IN IF p[k] = "*" THEN {j \in 0..Len(t) : \E i \in S : i <= j}
            ELSE IF p[k] = "?" THEN {i + 1 : i \in {x \in S : x < Len(t)}}
            ELSE {i + 1 : i \in {x \in S : x < Len(t) /\ t[x + 1] = p[k]}}

RefMatch(p, t) == Len(t) \in RefPositions(p, t, Len(p))

C16_GlobIsReference ==
    /\ gmatch # "none" =>
         /\ (gmatch = "match") <=> RefMatch(ToLower(gpattern), ToLower(gtext))
         /\ gpattern = <<"*">> => gmatch = "match"
         /\ gpattern = <<>> => (gmatch = "match" <=> gtext = <<>>)
    /\ mainpc = "glob" =>
         /\ GlobMatch(<<"a", "?", "c">>, <<"a", "b", "c">>)
         /\ ~GlobMatch(<<"a", "?", "c">>, <<"a", "c">>)
         /\ GlobMatch(<<"A", "*">>, <<"a", "p", "p", "l", "e">>)

\* an upper-case literal, a star and a literal matched a text of other case
C16_Witness ==
    /\ gmatch = "match"
    /\ gpattern = <<"A", "*", "b">>
    /\ gtext = <<"a", "A", "b">>

(***************************************************************************)
(* Vocabulary of the properties of discover_repos.                         *)
(***************************************************************************)
RECURSIVE ListedBy(_)
\* the records the listings of the owners os hold, in the order of os
ListedBy(os) ==
    IF Len(os) = 0 THEN <<>>
    ELSE remote[Head(os)].repos \o ListedBy(Tail(os))

\* the first record of the identifier id in the sequence rs
FirstRecord(rs, id) ==
    rs[CHOOSE k \in 1..Len(rs) :
          /\ rs[k].name_with_owner = id
          /\ \A j \in 1..(k - 1) : rs[j].name_with_owner # id]

FoundWith(id) == {k \in 1..Len(found) : found[k].name_with_owner = id}

\* the name of an identifier: what follows its first separator
NameOf(nwo) ==
    IF \E k \in 1..Len(nwo) : nwo[k] = Slash
    THEN LET k == CHOOSE i \in 1..Len(nwo) :
                     nwo[i] = Slash /\ \A j \in 1..(i - 1) : nwo[j] # Slash
         IN SubSeq(nwo, k + 1, Len(nwo))
    ELSE <<>>

\* the record passes every filter that is active
Passes(r) ==
    /\ filters.no_forks => ~r.is_fork
    /\ filters.forks_only => r.is_fork
    /\ filters.no_archived => ~r.is_archived
    /\ filters.archived_only => r.is_archived
    /\ filters.visibility # <<>> => ToLower(r.visibility) = ToLower(filters.visibility[1])
    /\ filters.patterns # <<>> =>
         \E k \in 1..Len(filters.patterns) :
            RefMatch(ToLower(filters.patterns[k]), ToLower(NameOf(r.name_with_owner)))
    /\ \A k \in 1..Len(filters.exclude) :
            ~RefMatch(ToLower(filters.exclude[k]), ToLower(NameOf(r.name_with_owner)))

\* the explicit owners that are no known organisation in any letter case
UnknownOwners ==
    {e \in Range(filters.org) : \A o \in Range(orgs) : ToLower(o) # ToLower(e)}

\* the owner set was resolved
Resolved ==
    \/ dpc \in {"fetch", "done"}
    \/ (dpc = "failed" /\ derr[1].kind = "list_repos failed")

(***************************************************************************)
(* C11. When several owners report a record with the same identifier, the  *)
(* returned list holds one record for it, the one of the owner that comes  *)
(* first in the owner set (the first one seen; the fields of a later       *)
(* duplicate are never used, not even when the first record is filtered    *)
(* out); the identifiers of the returned list are pairwise distinct.       *)
(***************************************************************************)
C11_FirstSeenWins ==
    /\ dpc = "fetch" =>
         \A id \in DOMAIN seen : seen[id] = FirstRecord(ListedBy(fetched), id)
    /\ dpc = "done" =>
         /\ \A k \in 1..Len(found) :
               /\ found[k] = FirstRecord(ListedBy(owners), found[k].name_with_owner)
               /\ FoundWith(found[k].name_with_owner) = {k}
         /\ \A k \in 1..Len(ListedBy(owners)) :
               LET id == ListedBy(owners)[k].name_with_owner
               IN Passes(FirstRecord(ListedBy(owners), id)) => FoundWith(id) # {}

\* two owners reported one identifier with different fork flags, the second
\* owner reported another one, and the returned list has the first owner's
C11_Witness ==
    /\ dpc = "done"
    /\ owners = <<User, OrgUniverse[1]>>
    /\ remote[User].repos = <<Repo(<<"a", "/", "r">>, TRUE, FALSE, PUBLIC)>>
    /\ remote[OrgUniverse[1]].repos = <<Repo(<<"B", "/", "s">>, FALSE, FALSE, PUBLIC),
                                        Repo(<<"a", "/", "r">>, FALSE, FALSE, PUBLIC)>>
    /\ found = <<Repo(<<"a", "/", "r">>, TRUE, FALSE, PUBLIC),
                 Repo(<<"B", "/", "s">>, FALSE, FALSE, PUBLIC)>>

(***************************************************************************)
(* C12. The returned list holds exactly the deduplicated records that pass *)
(* every active filter: no fork with no_forks and only forks with          *)
(* forks_only, likewise for archived; only the records whose visibility is *)
(* the requested one in any letter case; with include patterns only the    *)
(* records whose bare name matches one of them; and no record whose bare   *)
(* name matches an exclude pattern, included or not.                       *)
(***************************************************************************)
C12_ExactlyThePassing ==
    dpc = "done" =>
        /\ Range(found) = {seen[id] : id \in {i \in DOMAIN seen : Passes(seen[i])}}
        /\ Len(found) = Cardinality(Range(found))
        /\ filters.no_forks => \A k \in 1..Len(found) : ~found[k].is_fork
        /\ \A k \in 1..Len(found) :
              ~MatchesAny(filters.exclude, NameOf(found[k].name_with_owner))

\* a name that an include and an exclude pattern both match was removed, a
\* name that only the include pattern matches was kept, with a visibility
\* requested in lower case
C12_Witness ==
    /\ dpc = "done"
    /\ filters.patterns = << <<"r", "*">> >>
    /\ filters.exclude = << <<"*", "s">> >>
    /\ filters.visibility = <<ToLower(PUBLIC)>>
    /\ ~filters.no_forks /\ ~filters.forks_only
    /\ DOMAIN seen = {<<"u", "/", "r">>, <<"u", "/", "r", "s">>}
    /\ Len(found) = 1
    /\ found[1].name_with_owner = <<"u", "/", "r">>

(***************************************************************************)
(* C13. The returned list is sorted ascending by lowercased identifier:    *)
(* for adjacent records a, b, lowercase(a) <= lowercase(b).                *)
(***************************************************************************)
C13_SortedByLowercase ==
    dpc = "done" =>
        \A k \in 1..(Len(found) - 1) :
            ~StrLess(ToLower(found[k + 1].name_with_owner),
                     ToLower(found[k].name_with_owner))

\* an identifier in lower case comes before one in upper case that the byte
\* order puts first
C13_Witness ==
    /\ dpc = "done"
    /\ Len(found) = 2
    /\ found[1].name_with_owner = <<"a", "/", "r">>
    /\ found[2].name_with_owner = <<"B", "/", "s">>
    /\ StrLess(found[2].name_with_owner, found[1].name_with_owner)

(***************************************************************************)
(* C14. With explicit owners of which at least one is no known             *)
(* organisation in any letter case, discover_repos fails with an error     *)
(* that names every invalid owner and the whole list of known              *)
(* organisations, and no listing is fetched for any owner, valid or not.   *)
(***************************************************************************)
C14_InvalidOwnerFailsFirst ==
    (dpc # "resolve" /\ UnknownOwners # {}) =>
        /\ dpc = "failed"
        /\ derr[1].kind = "not a member of org(s)"
        /\ Range(derr[1].invalid) = UnknownOwners
        /\ derr[1].known = orgs
        /\ fetched = <<>>
        /\ seen = <<>>
        /\ found = <<>>

\* a valid and an invalid owner were given; only the invalid one is named
C14_Witness ==
    /\ dpc = "failed"
    /\ orgs = SubSeq(OrgUniverse, 1, 2)
    /\ filters.org = << <<"a">>, <<"x">> >>
    /\ derr[1].invalid = << <<"x">> >>
    /\ fetched = <<>>

(***************************************************************************)
(* C15. Without explicit owners the owner set is the known organisations   *)
(* with orgs_only, the user alone with personal_only, and the user         *)
(* followed by the known organisations otherwise. With explicit owners     *)
(* that are all valid it is the known organisations that equal one of them *)
(* in some letter case, in the order of the known organisations, whatever  *)
(* the scope switches. The listings are fetched in the order of the owner  *)
(* set.                                                                    *)
(***************************************************************************)
C15_OwnerSet ==
    Resolved =>
        /\ (filters.org = <<>> /\ filters.orgs_only) => owners = orgs
        /\ (filters.org = <<>> /\ filters.personal_only) => owners = <<username>>
        /\ (filters.org = <<>> /\ ~filters.orgs_only /\ ~filters.personal_only) =>
              owners = <<username>> \o orgs
        /\ filters.org # <<>> =>
              owners = SelectSeq(orgs, LAMBDA o :
                          \E e \in Range(filters.org) : ToLower(e) = ToLower(o))
        /\ fetched = SubSeq(owners, 1, Len(fetched))
        /\ dpc = "done" => fetched = owners

\* explicit owners in another letter case and another order, with orgs_only
C15_Witness ==
    /\ dpc = "done"
    /\ filters.org = << <<"B">>, <<"a">> >>
    /\ filters.orgs_only
    /\ owners = << <<"A">>, <<"b">> >>
    /\ fetched = owners

(***************************************************************************)
(* C19. discover_repos is deterministic: the same inputs give the same     *)
(* list in the same order, also when two identifiers differ in letter case *)
(* only, and whatever the order in which the map hands out its values.     *)
(***************************************************************************)
C19_SameOrderForEveryMapOrder ==
    dpc = "done" =>
        \A order \in Perms(DOMAIN seen) :
            SortRepos(ApplyFilters(filters, ValuesIn(seen, order))) = found

(***************************************************************************)
(* C17. When the listing of an owner fails, discover_repos returns that    *)
(* error and no list, the owners after the failing one are not fetched,    *)
(* and the run ends with status 1 without run_backup being called: no      *)
(* worker is spawned and no clone or update action is started.             *)
(***************************************************************************)
FailedFetches == {k \in 1..Len(fetched) : ~remote[fetched[k]].ok}

C17_DiscoveryFailureAborts ==
    (dpc # "off" /\ FailedFetches # {}) =>
        /\ FailedFetches = {Len(fetched)}
        /\ dpc = "failed"
        /\ derr = <<ListFailed(fetched[Len(fetched)])>>
        /\ found = <<>>
        /\ seen = <<>>
        /\ fetched = SubSeq(owners, 1, Len(fetched))
        /\ mainpc \in {"discover", "exited"}
        /\ mainpc = "exited" => exitStatus = 1
        /\ repos = <<>>
        /\ launched = <<>>
        /\ spawned = 0
        /\ results = <<>>
        /\ \A w \in Workers : pc[w] = "idle"

\* the first listing failed, the second owner's would have succeeded and
\* was not fetched, and the run has ended with status 1
C17_Witness ==
    /\ mainpc = "exited"
    /\ exitStatus = 1
    /\ owners = <<User, OrgUniverse[1]>>
    /\ fetched = <<User>>
    /\ ~remote[User].ok
    /\ remote[OrgUniverse[1]].repos # <<>>
    /\ jobs >= 1 /\ destOk

(***************************************************************************)
(* C18. With at least one worker and any number of targets, also fewer     *)
(* targets than workers: if every external action returns, then under fair *)
(* scheduling the run ends; when it has ended every worker has left its    *)
(* loop and was joined, the summary was printed, every target has its      *)
(* outcome and the cursor is exactly N + W. The workers that hold a target *)
(* are never more than the targets without an outcome, so surplus workers  *)
(* leave without processing anything.                                      *)
(***************************************************************************)
SomeActionHangs == \E i \in 1..total : mock[i] = "hang"

C18_WorkersTerminate ==
    /\ (destOk /\ jobs >= 1) ~> (mainpc = "exited" \/ SomeActionHangs)
    /\ [](Cardinality({w \in Workers : Holding(w)}) + Len(results) <= total)
    /\ []((mainpc = "exited" /\ destOk /\ jobs >= 1) =>
             /\ WorkersExited
             /\ Len(SummaryLines) = 1
             /\ Len(results) = total
             /\ next_idx = total + jobs)

\* two workers and one target: the run has ended with the cursor at three
C18_Witness ==
    /\ mainpc = "exited" /\ destOk
    /\ jobs = 2 /\ total = 1
    /\ Len(results) = 1
    /\ next_idx = 3

(***************************************************************************)
(* C20. For every failing target the progress report shows the identifier  *)
(* and then the first line of the diagnostic text captured from the        *)
(* action's standard error: an action failing with "network timeout" on    *)
(* standard error is reported with the line "network timeout".             *)
(***************************************************************************)
C20_ErrorLineIsStderr ==
    \A k \in 1..Len(out) :
        out[k].kind = "errline" =>
            /\ k > 1
            /\ out[k - 1].kind = "progress"
            /\ out[k - 1].icon = Icon("Failed")
            /\ out[k].text = StderrText[1]

====
